---- MODULE Spec2Model ----
(***************************************************************************)
(* The pymdht Controller (core/controller.py) as a state machine.          *)
(*                                                                         *)
(* Time is counted in half seconds, because the code                       *)
(* reads a float clock and its entry points are called at arbitrary        *)
(* instants.  The Querier, the lookup objects, the routing manager, the    *)
(* responder, the tracker and the experimental manager are collaborators   *)
(* whose code is outside core/controller.py: the Querier and the lookup    *)
(* object follow sections 3, 4.2 and 4.3 of the specification, the other   *)
(* collaborators' return values are inputs of the actions.                 *)
(***************************************************************************)
EXTENDS Integers, Sequences, FiniteSets, TLC

\* ------------------------------------------------------------- bounds
\* queries the Querier may register in one behaviour
MaxQueries == 2
\* lookups (get_peers calls and maintenance lookups) in one behaviour
MaxLookups == 2
\* get_peers calls in one behaviour under the clock that sleeps
MaxCalls == 3

\* ---------------------------------------------------------- constants
\* all times are in half seconds: the code's clock is a float, and its entry
\* points are called at instants that are no whole seconds apart
CACHE_VALID_PERIOD == (5 * 60) * 2
\* main_loop: current_ts + 1
MAIN_LOOP_DELAY == 2
\* the Querier's timeout, 2 s
TIMEOUT_DELAY == 4

QUERY == "query"
RESPONSE == "response"
ERROR == "error"
UNKNOWN == "other"

Addrs == {"a1", "a2"}
InfoHashes == {"H", "G"}
\* None and the empty list are both false in the code's `if peers`
NoPeers == <<>>
\* what the tracker holds for an info-hash (none, or one peer)
TrackerBatches == {<<>>, <<"P0">>}
\* what a response carries (none, or one peer)
ResponseBatches == {<<>>, <<"P1">>}
\* index 0 stands for None where a lookup object is expected
NoLookup == 0

Min(a, b) == IF a <= b THEN a ELSE b

SetMin(S) == CHOOSE x \in S : \A y \in S : x <= y

\* batch P is part of peers
Includes(peers, P) ==
    \E i \in 1..(Len(peers) - Len(P) + 1) : SubSeq(peers, i, i + Len(P) - 1) = P

\* the instants of the clock that ticks: 0 s, 0.5 s, 1 s and the first
\* instant a query can time out at
EarlyTimes == {0, 1, 2, TIMEOUT_DELAY}
\* the instants of the clock that sleeps: around the end of the cache
\* window of an entry made at instant 0
LateTimes == (CACHE_VALID_PERIOD - 1)..(CACHE_VALID_PERIOD + 1)

VARIABLES now, next_maintenance_ts, next_timeout_ts, next_main_loop_call_ts,
          cached_lookups, querier, issued, lookups, last

vars == <<now, next_maintenance_ts, next_timeout_ts, next_main_loop_call_ts,
          cached_lookups, querier, issued, lookups, last>>

\* ------------------------------------------------------------ the cache

\* index of the first entry _get_cached_peers accepts, 0 when there is none
CachedIndex_NoExpiry(cache, t, info_hash) ==
    LET hits == {i \in 1..Len(cache) : cache[i].info_hash = info_hash}
    IN IF hits = {} THEN 0 ELSE SetMin(hits)

CachedIndex(cache, t, info_hash) ==
    LET oldest_valid_ts == t - CACHE_VALID_PERIOD
        hits == {i \in 1..Len(cache) :
                     cache[i].ts > oldest_valid_ts /\ cache[i].info_hash = info_hash}
    IN IF hits = {} THEN 0 ELSE SetMin(hits)

GetCachedPeers(cache, t, info_hash) ==
    LET i == CachedIndex(cache, t, info_hash)
    IN IF i = 0 THEN NoPeers ELSE cache[i].peers

RECURSIVE DropOld(_, _)
DropOld(cache, oldest_valid_ts) ==
    IF cache # <<>> /\ cache[1].ts < oldest_valid_ts
    THEN DropOld(Tail(cache), oldest_valid_ts)
    ELSE cache

AddCachePeers_AlwaysAppend(cache, t, info_hash, peers) ==
    Append(DropOld(cache, t - CACHE_VALID_PERIOD),
           [ts |-> t, info_hash |-> info_hash, peers |-> peers])

AddCachePeers_Replace(cache, t, info_hash, peers) ==
    LET kept == DropOld(cache, t - CACHE_VALID_PERIOD)
    IN IF kept # <<>> /\ kept[Len(kept)].info_hash = info_hash
       THEN [kept EXCEPT ![Len(kept)].peers = peers]
       ELSE Append(kept, [ts |-> t, info_hash |-> info_hash, peers |-> peers])

AddCachePeers(cache, t, info_hash, peers) ==
    LET kept == DropOld(cache, t - CACHE_VALID_PERIOD)
    IN IF kept # <<>> /\ kept[Len(kept)].info_hash = info_hash
       THEN [kept EXCEPT ![Len(kept)].peers = @ \o peers]
       ELSE Append(kept, [ts |-> t, info_hash |-> info_hash, peers |-> peers])

\* ---------------------------------------------------------- the Querier

\* n queries bound to lookup object l (NoLookup: bound to none); the
\* collaborators address every query to the one remote node they know
Batch(n, l) == [k \in 1..n |-> [dst |-> "a1", lookup |-> l]]

RECURSIVE QuerierRegister(_, _, _, _)
\* Querier.register_queries: returns the records stored and the datagrams
QuerierRegister(q, n_issued, t, queries) ==
    IF queries = <<>>
    THEN [q |-> q, issued |-> n_issued, datagrams |-> <<>>]
    ELSE LET rec == [tid |-> n_issued, dst |-> Head(queries).dst,
                     deadline |-> t + TIMEOUT_DELAY, lookup |-> Head(queries).lookup]
             rest == QuerierRegister(q \cup {rec}, n_issued + 1, t, Tail(queries))
         IN [rest EXCEPT !.datagrams =
                <<[kind |-> QUERY, tid |-> rec.tid, dst |-> rec.dst]>> \o @]

\* Querier.get_related_query: the record a response or error answers
RelatedQueries(q, msg) == {r \in q : r.tid = msg.tid /\ r.dst = msg.addr}

\* Querier.get_timeout_queries: the expired records, oldest first
Expired(q, t) == {r \in q : r.deadline <= t}

RECURSIVE SortByTid(_)
SortByTid(S) ==
    IF S = {} THEN <<>>
    ELSE LET r == CHOOSE x \in S : \A y \in S : x.tid <= y.tid
         IN <<r>> \o SortByTid(S \ {r})

NextDeadline(q, t) ==
    IF q = {} THEN t + 2 ELSE SetMin({r.deadline : r \in q})

\* ------------------------------------------- the handlers' working state

\* what one entry point has done so far: the fields it may write and, for the
\* record of the call, the callbacks made, the datagrams collected and the
\* collaborators notified
Ctx == [nmlc |-> next_main_loop_call_ts, q |-> querier, issued |-> issued,
        cache |-> cached_lookups, lk |-> lookups,
        cbs |-> <<>>, out |-> <<>>, notified |-> {},
        uncached |-> FALSE, announced |-> <<>>]

Notify(c, who) == [c EXCEPT !.notified = @ \cup {who}]

\* Controller._register_queries, followed by datagrams_to_send.extend
RegisterQueries_KeepTick(c, t, queries) ==
    IF queries = <<>> THEN c
    ELSE LET r == QuerierRegister(c.q, c.issued, t, queries)
         IN [c EXCEPT !.q = r.q, !.issued = r.issued,
                      !.out = @ \o r.datagrams]

RegisterQueries_SetsTick(c, t, queries) ==
    IF queries = <<>> THEN c
    ELSE LET r == QuerierRegister(c.q, c.issued, t, queries)
             timeout_call_ts == SetMin({x.deadline : x \in r.q})
         IN [c EXCEPT !.q = r.q, !.issued = r.issued,
                      !.nmlc = timeout_call_ts,
                      !.out = @ \o r.datagrams]

RegisterQueries(c, t, queries) ==
    IF queries = <<>> THEN c
    ELSE LET r == QuerierRegister(c.q, c.issued, t, queries)
             timeout_call_ts == SetMin({x.deadline : x \in r.q})
         IN [c EXCEPT !.q = r.q, !.issued = r.issued,
                      !.nmlc = Min(@, timeout_call_ts),
                      !.out = @ \o r.datagrams]

\* datagrams_to_send.extend(queries) with queries no Querier has seen
ExtendUnregistered(c, queries) ==
    [c EXCEPT !.out = @ \o [k \in 1..Len(queries) |->
                               [kind |-> "unregistered", tid |-> -1,
                                dst |-> queries[k].dst]]]

\* the cache, as it is now, holds batch peers in an entry for info_hash
Cached(cache, info_hash, peers) ==
    \E i \in 1..Len(cache) :
        cache[i].info_hash = info_hash /\ Includes(cache[i].peers, peers)

\* callback_f(lookup_id, peers, node) behind `callback_f and callable(callback_f)`;
\* uncached tells that a batch was handed over that the cache did not hold
\* at that moment
Callback(c, l, peers, node) ==
    IF ~c.lk[l].callable THEN c
    ELSE [c EXCEPT !.cbs = Append(@, [lookup_id |-> l, peers |-> peers, node |-> node]),
                   !.uncached = @ \/ (peers # NoPeers
                                        /\ ~Cached(c.cache, c.lk[l].info_hash, peers)),
                   !.lk[l].after = @ \/ c.lk[l].ncompl > 0,
                   !.lk[l].ncompl = IF peers = NoPeers THEN Min(@ + 1, 2) ELSE @]

\* --------------------------------------------------- the lookup object

NewLookup(info_hash, callable, started) ==
    [info_hash |-> info_hash, callable |-> callable, started |-> started,
     inflight |-> 0, done |-> FALSE, ncompl |-> 0, after |-> FALSE]

\* LookupObject.start: n queries are in flight
LookupStart(c, l, n) == [c EXCEPT !.lk[l].inflight = n]

\* LookupObject.on_response_received / on_error_received / on_timeout: one
\* query is no longer in flight, n new ones are; the lookup is done when
\* none is left
LookupFeed(c, l, n) ==
    [c EXCEPT !.lk[l].inflight = @ - 1 + n,
              !.lk[l].done = @ \/ (c.lk[l].inflight - 1 + n = 0),
              !.notified = @ \cup {"lookup"}]

LookupDone(c, l) == c.lk[l].inflight = 0

\* --------------------------------------------------------- the record

NoMsg == [decodable |-> FALSE, type |-> UNKNOWN, tid |-> -1, addr |-> "a1",
          from_me |-> FALSE, peers |-> NoPeers]

NoArgs == [info_hash |-> "", use_cache |-> FALSE]

\* what the last call was, was given, did and returned
Record(op, path, c, msg) ==
    [op |-> op, path |-> path, ret_ts |-> c.nmlc, raised |-> FALSE,
     datagrams |-> c.out, callbacks |-> c.cbs, notified |-> c.notified,
     msg |-> msg, args |-> NoArgs, lookup |-> NoLookup,
     cached_ts |-> -1, swept |-> {}, dispatched |-> {},
     pruned |-> 0, uncached |-> c.uncached, announced |-> c.announced]

\* the number of entries the call's _add_cache_peers deleted
Pruned(c) ==
    IF c.cache = cached_lookups THEN 0
    ELSE Len(cached_lookups)
            - Len(DropOld(cached_lookups, now - CACHE_VALID_PERIOD))

Commit(c) ==
    /\ next_main_loop_call_ts' = c.nmlc
    /\ querier' = c.q
    /\ issued' = c.issued
    /\ cached_lookups' = c.cache
    /\ lookups' = c.lk

\* ------------------------------------------------------------- Init

Init ==
    /\ now = 0
    /\ next_maintenance_ts = 0
    /\ next_timeout_ts = 0
    /\ next_main_loop_call_ts = 0
    /\ cached_lookups = <<>>
    /\ querier = {}
    /\ issued = 0
    /\ lookups = <<>>
    /\ last = Record("init", "init", Ctx, NoMsg)

\* the clock: time passes only between calls, here by half a second
Advance ==
    /\ \E t \in EarlyTimes : t > now /\ (\A u \in EarlyTimes : u > now => t <= u)
                               /\ now' = t
    /\ last' = Record("advance", "advance", Ctx, NoMsg)
    /\ UNCHANGED <<next_maintenance_ts, next_timeout_ts, next_main_loop_call_ts,
                   cached_lookups, querier, issued, lookups>>

\* the clock: nothing is called for about five minutes
Sleep ==
    /\ \E t \in LateTimes : t > now /\ now' = t
    /\ last' = Record("advance", "sleep", Ctx, NoMsg)
    /\ UNCHANGED <<next_maintenance_ts, next_timeout_ts, next_main_loop_call_ts,
                   cached_lookups, querier, issued, lookups>>

\* ------------------------------------------------------------ get_peers

\* the cache path of get_peers: two callbacks, nothing else
GetPeersCacheHit_StartsLookup(c, l, peers, n) ==
    LET c1 == Callback(c, l, peers, "None")
        c2 == Callback(c1, l, NoPeers, "None")
        c3 == Notify([c2 EXCEPT !.lk[l].started = TRUE], "lookup_m")
    IN RegisterQueries(LookupStart(c3, l, n), now, Batch(n, l))

GetPeersCacheHit(c, l, peers, n) ==
    LET c1 == Callback(c, l, peers, "None")
    IN Callback(c1, l, NoPeers, "None")

\* the rest of get_peers: the lookup manager, the tracker, start, register
GetPeersLookup(c, l, info_hash, tracker_peers, n) ==
    LET c1 == Notify([c EXCEPT !.lk[l].started = TRUE], "lookup_m")
        c2 == IF tracker_peers # NoPeers
              THEN Callback([c1 EXCEPT !.cache =
                                AddCachePeers(@, now, info_hash, tracker_peers)],
                            l, tracker_peers, "None")
              ELSE c1
        c3 == LookupStart(c2, l, n)
    IN RegisterQueries(c3, now, Batch(n, l))

GetPeersOutcome(info_hash, callable, use_cache, tracker_peers, n) ==
    LET l == Len(lookups) + 1
        c0 == [Ctx EXCEPT !.lk = Append(@, NewLookup(info_hash, callable, FALSE))]
        i == IF use_cache THEN CachedIndex(cached_lookups, now, info_hash) ELSE 0
        peers == IF use_cache THEN GetCachedPeers(cached_lookups, now, info_hash)
                 ELSE NoPeers
        ts == IF i = 0 THEN -1 ELSE cached_lookups[i].ts
    IN IF use_cache /\ peers # NoPeers /\ callable
       THEN [c |-> GetPeersCacheHit(c0, l, peers, n), path |-> "cache_hit",
             cached_ts |-> ts]
       ELSE [c |-> GetPeersLookup(c0, l, info_hash, tracker_peers, n),
             path |-> "lookup", cached_ts |-> ts]

\* get_peers with its arguments and the tracker's answer drawn from the
\* given sets; lookup_obj.start sends one query (a seed of one node)
GetPeers(max_calls, info_hashes, callables, tracker_batches) ==
    /\ Len(lookups) < max_calls
    /\ \E info_hash \in info_hashes, callable \in callables, use_cache \in BOOLEAN,
          tracker_peers \in tracker_batches :
          \E o \in {GetPeersOutcome(info_hash, callable, use_cache, tracker_peers, 1)} :
             /\ o.c.issued <= MaxQueries
             /\ Commit(o.c)
             /\ last' = [Record("get_peers", o.path, o.c, NoMsg) EXCEPT
                            !.cached_ts = o.cached_ts,
                            !.lookup = Len(lookups) + 1,
                            !.pruned = Pruned(o.c),
                            !.args = [info_hash |-> info_hash,
                                      use_cache |-> use_cache]]
    /\ UNCHANGED <<now, next_maintenance_ts, next_timeout_ts>>

\* ------------------------------------------------------------ main_loop

\* Controller._announce: the lookup's announce batch (na queries, bound to
\* no lookup object); announced lists the calls of announce() with whether
\* the lookup's completion callback had been made by then
Announce(c, l, na) ==
    [c |-> [Notify(c, "announce") EXCEPT
               !.announced = Append(@, [lookup |-> l,
                                        completed |-> c.lk[l].ncompl > 0])],
     queries |-> Batch(na, NoLookup)]

\* Controller._on_timeout for one expired query.  nl, na, nm and ne are the
\* numbers of queries the lookup object, its announce(), the routing manager
\* and the experimental manager emit.  line 348 names datagrams_to_send,
\* which _on_timeout never binds: with experimental queries the call raises
\* NameError right after registering them.
OnTimeout(c, related_query, nl, na, nm, ne) ==
    LET l == related_query.lookup
        c1 == Notify(c, "exp")
        c2 == IF l # NoLookup THEN LookupFeed(c1, l, nl) ELSE c1
        lookup_done == l # NoLookup /\ LookupDone(c2, l)
        c3 == IF lookup_done THEN Callback(c2, l, NoPeers, "None") ELSE c2
        a == IF lookup_done THEN Announce(c3, l, na)
             ELSE [c |-> c3, queries |-> <<>>]
        c4 == Notify(a.c, "routing")
        queries_to_send == (IF l # NoLookup THEN Batch(nl, l) ELSE <<>>)
                               \o a.queries \o Batch(nm, NoLookup)
    IN IF ne > 0
       THEN [c |-> RegisterQueries(c4, now, Batch(ne, NoLookup)),
             queries |-> queries_to_send, raised |-> TRUE]
       ELSE [c |-> c4, queries |-> queries_to_send, raised |-> FALSE]

RECURSIVE Sweep(_, _, _, _, _, _, _)
\* the for loop of main_loop over timeout_queries; an exception ends it
Sweep(s, timeout_queries, k, nl, na, nm_at, ne_at) ==
    IF timeout_queries = <<>> \/ s.raised THEN s
    ELSE LET r == OnTimeout(s.c, Head(timeout_queries), nl[k], na,
                            IF nm_at = k THEN 1 ELSE 0, IF ne_at = k THEN 1 ELSE 0)
         IN Sweep([c |-> r.c, queries |-> s.queries \o r.queries,
                   raised |-> r.raised,
                   dispatched |-> s.dispatched \cup {Head(timeout_queries).tid}],
                  Tail(timeout_queries), k + 1, nl, na, nm_at, ne_at)

\* the delays do_maintenance asks for: half a second, three seconds
MaintenanceDelays == {1, 6}

\* main_loop past the rate limit.  delay, nq, mlookup and ns are what
\* do_maintenance returns and what the maintenance lookup starts with.
MainLoopOutcome(nl, na, nm_at, ne_at, delay, nq, mlookup, ns) ==
    LET current_ts == now
        c0 == [Ctx EXCEPT !.nmlc = current_ts + MAIN_LOOP_DELAY]
        sweep_due == current_ts >= next_timeout_ts
        expired == IF sweep_due THEN Expired(querier, current_ts) ELSE {}
        c1 == [c0 EXCEPT !.q = @ \ expired]
        timeout_ts == IF sweep_due THEN NextDeadline(c1.q, current_ts)
                      ELSE next_timeout_ts
        s == Sweep([c |-> c1, queries |-> <<>>, raised |-> FALSE, dispatched |-> {}],
                   SortByTid(expired), 1, nl, na, nm_at, ne_at)
        maintenance_due == current_ts >= next_maintenance_ts
        maintenance_ts == IF maintenance_due THEN current_ts + delay
                          ELSE next_maintenance_ts
        l == Len(s.c.lk) + 1
        c2 == IF maintenance_due
              THEN Notify([s.c EXCEPT !.nmlc = Min(@, maintenance_ts)], "routing")
              ELSE s.c
        c3 == IF maintenance_due /\ mlookup
              THEN LookupStart(
                      Notify([c2 EXCEPT !.lk = Append(@, NewLookup("T", FALSE, TRUE))],
                             "lookup_m"), l, ns)
              ELSE c2
        queries_to_send == s.queries
                             \o (IF maintenance_due THEN Batch(nq, NoLookup) ELSE <<>>)
                             \o (IF maintenance_due /\ mlookup THEN Batch(ns, l) ELSE <<>>)
        c4 == RegisterQueries(c3, current_ts, queries_to_send)
        swept == {r.tid : r \in expired}
    IN IF s.raised
       THEN [c |-> [s.c EXCEPT !.out = <<>>], timeout_ts |-> timeout_ts,
             maintenance_ts |-> next_maintenance_ts, raised |-> TRUE,
             swept |-> swept, dispatched |-> s.dispatched]
       ELSE [c |-> c4, timeout_ts |-> timeout_ts,
             maintenance_ts |-> maintenance_ts, raised |-> FALSE,
             swept |-> swept, dispatched |-> s.dispatched]

\* main_loop called before next_main_loop_call_ts: "It's too early"
MainLoopTooEarly_Reschedules ==
    /\ now < next_main_loop_call_ts
    /\ next_main_loop_call_ts' = now + MAIN_LOOP_DELAY
    /\ last' = [Record("main_loop", "too_early", Ctx, NoMsg) EXCEPT
                   !.ret_ts = now + MAIN_LOOP_DELAY]
    /\ UNCHANGED <<now, next_maintenance_ts, next_timeout_ts,
                   cached_lookups, querier, issued, lookups>>

MainLoopTooEarly ==
    /\ now < next_main_loop_call_ts
    /\ last' = Record("main_loop", "too_early", Ctx, NoMsg)
    /\ UNCHANGED <<now, next_maintenance_ts, next_timeout_ts, next_main_loop_call_ts,
                   cached_lookups, querier, issued, lookups>>

\* main_loop past the rate limit; counts is the set of numbers of queries a
\* collaborator may emit in one call, delays and mlookups what
\* do_maintenance may return
MainLoopRun(counts, delays, mlookups) ==
    /\ now >= next_main_loop_call_ts
    /\ LET sweep_due == now >= next_timeout_ts
           maintenance_due == now >= next_maintenance_ts
           K == IF sweep_due THEN Cardinality(Expired(querier, now)) ELSE 0
           at == IF counts = {0} THEN {0} ELSE 0..K
       IN \E nl \in [1..K -> counts], na \in IF K = 0 THEN {0} ELSE counts,
             nm_at \in at, ne_at \in at,
             delay \in IF maintenance_due THEN delays ELSE {0},
             nq \in IF maintenance_due THEN counts ELSE {0},
             mlookup \in IF maintenance_due /\ Len(lookups) < MaxLookups
                         THEN mlookups ELSE {FALSE} :
          \E o \in {MainLoopOutcome(nl, na, nm_at, ne_at, delay, nq, mlookup,
                                    IF mlookup THEN 1 ELSE 0)} :
                /\ o.c.issued <= MaxQueries
                /\ Commit(o.c)
                /\ next_timeout_ts' = o.timeout_ts
                /\ next_maintenance_ts' = o.maintenance_ts
                /\ last' = [Record("main_loop", IF o.raised THEN "raised" ELSE "run",
                                   o.c, NoMsg) EXCEPT
                               !.raised = o.raised, !.swept = o.swept,
                               !.dispatched = o.dispatched]
    /\ UNCHANGED now


\* -------------------------------------------------- on_datagram_received

\* the QUERY branch, for a query of another node
OnQuery(c, msg, has_response, nm, ne) ==
    LET c1 == Notify(Notify(c, "exp"), "responder")
        c2 == IF has_response
              THEN [c1 EXCEPT !.out = Append(@, [kind |-> RESPONSE, tid |-> msg.tid,
                                                 dst |-> msg.addr])]
              ELSE c1
        c3 == Notify(c2, "routing")
        c4 == RegisterQueries(c3, now, Batch(nm, NoLookup))
    IN RegisterQueries(c4, now, Batch(ne, NoLookup))

\* the peers lookup_obj.on_response_received returns: a maintenance lookup
\* asks for nodes, not for peers
LookupPeers(c, l, msg) ==
    IF c.lk[l].info_hash \in InfoHashes THEN msg.peers ELSE NoPeers

\* "lookup related tasks" of the RESPONSE branch
OnResponseLookup_AlwaysDone(c, l, msg, nl, na) ==
    LET c1 == RegisterQueries(LookupFeed(c, l, nl), now, Batch(nl, l))
        peers == LookupPeers(c, l, msg)
        c2 == IF peers # NoPeers
              THEN Callback([c1 EXCEPT !.cache =
                                AddCachePeers(@, now, c.lk[l].info_hash, peers)],
                            l, peers, msg.addr)
              ELSE c1
        a == Announce(Callback(c2, l, NoPeers, msg.addr), l, na)
    IN RegisterQueries(a.c, now, a.queries)

OnResponseLookup_NoCache(c, l, msg, nl, na) ==
    LET c1 == RegisterQueries(LookupFeed(c, l, nl), now, Batch(nl, l))
        peers == LookupPeers(c, l, msg)
        lookup_done == LookupDone(c1, l)
        c2 == IF peers # NoPeers THEN Callback(c1, l, peers, msg.addr) ELSE c1
        a == Announce(Callback(c2, l, NoPeers, msg.addr), l, na)
    IN IF lookup_done THEN RegisterQueries(a.c, now, a.queries) ELSE c2

OnResponseLookup_CallbackFirst(c, l, msg, nl, na) ==
    LET c1 == RegisterQueries(LookupFeed(c, l, nl), now, Batch(nl, l))
        peers == LookupPeers(c, l, msg)
        lookup_done == LookupDone(c1, l)
        c2 == IF peers # NoPeers
              THEN [Callback(c1, l, peers, msg.addr) EXCEPT !.cache =
                       AddCachePeers(@, now, c.lk[l].info_hash, peers)]
              ELSE c1
        a == Announce(Callback(c2, l, NoPeers, msg.addr), l, na)
    IN IF lookup_done THEN RegisterQueries(a.c, now, a.queries) ELSE c2

OnResponseLookup(c, l, msg, nl, na) ==
    LET c1 == RegisterQueries(LookupFeed(c, l, nl), now, Batch(nl, l))
        peers == LookupPeers(c, l, msg)
        lookup_done == LookupDone(c1, l)
        c2 == IF peers # NoPeers
              THEN Callback([c1 EXCEPT !.cache =
                                AddCachePeers(@, now, c.lk[l].info_hash, peers)],
                            l, peers, msg.addr)
              ELSE c1
        a == Announce(Callback(c2, l, NoPeers, msg.addr), l, na)
    IN IF lookup_done THEN RegisterQueries(a.c, now, a.queries) ELSE c2

\* the RESPONSE branch for a response the Querier has matched
OnResponse_KeepsQuery(c, related_query, msg, nl, na, nm, ne) ==
    LET l == related_query.lookup
        c1 == Notify(c, "exp")
        c2 == IF l # NoLookup THEN OnResponseLookup(c1, l, msg, nl, na) ELSE c1
        c3 == Notify(c2, "routing")
        c4 == RegisterQueries(c3, now, Batch(nm, NoLookup))
    IN RegisterQueries(c4, now, Batch(ne, NoLookup))

OnResponse(c, related_query, msg, nl, na, nm, ne) ==
    LET l == related_query.lookup
        c1 == Notify([c EXCEPT !.q = @ \ {related_query}], "exp")
        c2 == IF l # NoLookup THEN OnResponseLookup(c1, l, msg, nl, na) ELSE c1
        c3 == Notify(c2, "routing")
        c4 == RegisterQueries(c3, now, Batch(nm, NoLookup))
    IN RegisterQueries(c4, now, Batch(ne, NoLookup))

\* "lookup related tasks" of the ERROR branch: the announce queries go
\* into datagrams_to_send as they are, past _register_queries
OnErrorLookup_AnnounceFirst(c, l, msg, nl, na) ==
    LET c1 == RegisterQueries(LookupFeed(c, l, nl), now, Batch(nl, l))
        lookup_done == LookupDone(c1, l)
        a == Announce(c1, l, na)
    IN IF lookup_done
       THEN ExtendUnregistered(Callback(a.c, l, NoPeers, msg.addr), a.queries)
       ELSE c1

OnErrorLookup(c, l, msg, nl, na) ==
    LET c1 == RegisterQueries(LookupFeed(c, l, nl), now, Batch(nl, l))
        lookup_done == LookupDone(c1, l)
        a == Announce(Callback(c1, l, NoPeers, msg.addr), l, na)
    IN IF lookup_done THEN ExtendUnregistered(a.c, a.queries) ELSE c1

\* the ERROR branch for an error the Querier has matched
OnError(c, related_query, msg, nl, na, nm, ne) ==
    LET l == related_query.lookup
        c1 == Notify([c EXCEPT !.q = @ \ {related_query}], "exp")
        c2 == IF l # NoLookup THEN OnErrorLookup(c1, l, msg, nl, na) ELSE c1
        c3 == Notify(c2, "routing")
        c4 == RegisterQueries(c3, now, Batch(nm, NoLookup))
    IN RegisterQueries(c4, now, Batch(ne, NoLookup))

\* the returns of on_datagram_received that drop the datagram
DropUndecodable_NotifyRouting(c) == Notify(c, "routing")

DropUndecodable(c) == c

DropOwnQuery_Answers(c) == Notify(c, "responder")

DropOwnQuery(c) == c

DropUnmatched_NotifyRouting(c) == Notify(c, "routing")

DropUnmatched(c) == c

DropUnknown(c) == c

DatagramOutcome(msg, has_response, nl, na, nm, ne) ==
    LET related == RelatedQueries(querier, msg)
        related_query == CHOOSE r \in related : TRUE
    IN IF ~msg.decodable
       THEN [c |-> DropUndecodable(Ctx), path |-> "undecodable"]
       ELSE IF msg.type = QUERY
       THEN IF msg.from_me
            THEN [c |-> DropOwnQuery(Ctx), path |-> "own_query"]
            ELSE [c |-> OnQuery(Ctx, msg, has_response, nm, ne), path |-> "query"]
       ELSE IF msg.type = RESPONSE
       THEN IF related = {}
            THEN [c |-> DropUnmatched(Ctx), path |-> "unmatched"]
            ELSE [c |-> OnResponse(Ctx, related_query, msg, nl, na, nm, ne),
                  path |-> "response"]
       ELSE IF msg.type = ERROR
       THEN IF related = {}
            THEN [c |-> DropUnmatched(Ctx), path |-> "unmatched"]
            ELSE [c |-> OnError(Ctx, related_query, msg, nl, na, nm, ne),
                  path |-> "error"]
       ELSE [c |-> DropUnknown(Ctx), path |-> "unknown"]

Msg(type, tid, addr, from_me, peers) ==
    [decodable |-> TRUE, type |-> type, tid |-> tid, addr |-> addr,
     from_me |-> from_me, peers |-> peers]

\* the datagrams that arrive: one that does not decode, one of an unknown
\* variant, queries, and responses and errors that answer an outstanding
\* query, a query no longer outstanding, a transaction id never issued, or
\* come from another address than the query went to
Unmatched ==
    {<<tid, "a1">> : tid \in (0..issued) \ {r.tid : r \in querier}}
        \cup {<<r.tid, "a2">> : r \in querier}

Inbound(kinds) ==
    {m \in {NoMsg, Msg(UNKNOWN, 0, "a1", FALSE, NoPeers)} :
        (IF m.decodable THEN UNKNOWN ELSE "undecodable") \in kinds}
        \cup {Msg(QUERY, 0, "a2", from_me, NoPeers) :
                 from_me \in IF QUERY \in kinds THEN BOOLEAN ELSE {}}
        \cup {Msg(RESPONSE, r.tid, r.dst, FALSE, peers) :
                 r \in IF RESPONSE \in kinds THEN querier ELSE {},
                 peers \in ResponseBatches}
        \cup {Msg(type, r.tid, r.dst, TRUE, NoPeers) :
                 type \in {RESPONSE, ERROR} \cap kinds, r \in querier}
        \cup {Msg(ERROR, r.tid, r.dst, FALSE, NoPeers) :
                 r \in IF ERROR \in kinds THEN querier ELSE {}}
        \cup {Msg(type, u[1], u[2], FALSE, NoPeers) :
                 type \in {RESPONSE, ERROR} \cap kinds, u \in Unmatched}

AllKinds == {"undecodable", UNKNOWN, QUERY, RESPONSE, ERROR}

\* on_datagram_received; kinds are the datagrams that arrive, counts is the
\* set of numbers of queries a collaborator may emit in one call, out of
\* what the Querier may still register
OnDatagramReceived(kinds, counts) ==
    /\ \E msg \in Inbound(kinds) :
          LET related == RelatedQueries(querier, msg)
              answered == msg.decodable /\ msg.type \in {RESPONSE, ERROR}
                             /\ related # {}
              l == IF answered THEN (CHOOSE r \in related : TRUE).lookup ELSE NoLookup
              asked == msg.decodable /\ msg.type = QUERY /\ ~msg.from_me
             IN \E has_response \in IF asked THEN BOOLEAN ELSE {FALSE},
                nl \in IF l # NoLookup THEN counts ELSE {0} :
             \E na \in IF l # NoLookup /\ lookups[l].inflight - 1 + nl = 0
                       THEN counts ELSE {0},
                nm \in IF answered \/ asked THEN counts ELSE {0},
                ne \in IF answered \/ asked THEN counts ELSE {0} :
                /\ nl + na + nm + ne <= MaxQueries - issued
                /\ \E o \in {DatagramOutcome(msg, has_response, nl, na, nm, ne)} :
                      /\ Commit(o.c)
                      /\ last' = [Record("datagram", o.path, o.c, msg) EXCEPT
                                     !.lookup = l, !.pruned = Pruned(o.c)]
    /\ UNCHANGED <<now, next_maintenance_ts, next_timeout_ts>>

\* the program under the clock that ticks: one info-hash, no peers in the
\* tracker, collaborators that emit up to one query per call
Next ==
    \/ Advance
    \/ GetPeers(MaxLookups, {"H"}, {TRUE}, {NoPeers})
    \/ MainLoopTooEarly
    \/ MainLoopRun(0..1, MaintenanceDelays, BOOLEAN)
    \/ OnDatagramReceived(AllKinds, 0..1)

Spec == Init /\ [][Next]_vars

\* the program under the clock that sleeps: two info-hashes, a tracker with
\* and without peers, responses with and without peers, collaborators that
\* emit no query of their own
NextAged ==
    \/ Sleep
    \/ GetPeers(MaxCalls, InfoHashes, {TRUE}, TrackerBatches)
    \/ MainLoopTooEarly
    \/ MainLoopRun({0}, {6}, {FALSE})
    \/ OnDatagramReceived({RESPONSE}, {0})

SpecAged == Init /\ [][NextAged]_vars

\* ============================================================ the claims

\* the call the record is about was made for lookup l
Completed(l) == lookups[l].ncompl > 0

\* the get_peers call l is over: it took the cache path, or its lookup
\* object has reported done
Terminated(l) == ~lookups[l].started \/ lookups[l].done

\* an entry inside the cache window, the window taken inclusive (section
\* 4.1.7 of the specification)
NonExpired(e) == now - e.ts <= CACHE_VALID_PERIOD

C2_CacheHit ==
    [][(/\ last'.op = "get_peers"
        /\ last'.args.use_cache
        /\ lookups'[last'.lookup].callable
        /\ \E i \in 1..Len(cached_lookups) :
              /\ cached_lookups[i].info_hash = last'.args.info_hash
              /\ NonExpired(cached_lookups[i]))
       => /\ Len(last'.callbacks) = 2
          /\ last'.callbacks[1].lookup_id = last'.lookup
          /\ last'.callbacks[1].peers # NoPeers
          /\ last'.callbacks[1].node = "None"
          /\ last'.callbacks[2] = [lookup_id |-> last'.lookup, peers |-> NoPeers,
                                   node |-> "None"]
          /\ last'.datagrams = <<>>
          /\ ~lookups'[last'.lookup].started
          /\ "lookup_m" \notin last'.notified]_vars

\* C3, as claimed: main_loop and on_datagram_received return a next_tick_ts
\* that is >= now and <= min(next_timeout_ts, next_maintenance_ts).
C3_NextTickBounds ==
    (last.op \in {"main_loop", "datagram"} /\ ~last.raised)
    => /\ last.ret_ts >= now
       /\ last.ret_ts <= Min(next_timeout_ts, next_maintenance_ts)

\* C4: the entry _get_cached_peers returns peers from is at most
\* CACHE_VALID_PERIOD old.
C4_ReturnedEntryInWindow ==
    (last.op = "get_peers" /\ last.cached_ts # -1)
    => now - last.cached_ts <= CACHE_VALID_PERIOD

\* an entry returned half a second before the end of its window
C4_Witness ==
    /\ last.op = "get_peers"
    /\ last.cached_ts # -1
    /\ now - last.cached_ts = CACHE_VALID_PERIOD - 1

\* nothing is sent, called back or notified
NoEffect ==
    /\ last.datagrams = <<>>
    /\ last.callbacks = <<>>
    /\ last.notified = {}

\* C5, as claimed: a decoded datagram whose source id is the local id is
\* dropped without side effects, whatever its variant.
C5_OwnIdDroppedAnyVariant ==
    (last.op = "datagram" /\ last.msg.decodable /\ last.msg.from_me) => NoEffect

\* C5, amended: a QUERY whose source id is the local id is dropped without
\* side effects.
C5_OwnQueryDropped ==
    (last.op = "datagram" /\ last.msg.decodable /\ last.msg.from_me
        /\ last.msg.type = QUERY)
    => last.path = "own_query" /\ NoEffect /\ last.ret_ts = next_main_loop_call_ts

\* a query from the local id arrives while a lookup is under way
C5_Witness ==
    /\ last.op = "datagram" /\ last.msg.decodable /\ last.msg.from_me
    /\ last.msg.type = QUERY
    /\ querier # {}

\* C6: a RESPONSE or ERROR the Querier matches with no outstanding query is
\* dropped: empty batch, no callback, no collaborator notified.
C6_UnmatchedDropped ==
    (last.op = "datagram" /\ last.path = "unmatched")
    => NoEffect /\ last.ret_ts = next_main_loop_call_ts

\* a response arrives after its query was answered or swept, while another
\* query is outstanding
C6_Witness ==
    /\ last.op = "datagram" /\ last.path = "unmatched"
    /\ last.msg.type = RESPONSE
    /\ querier # {}
    /\ Cardinality(querier) < issued

\* C7: after a matched RESPONSE with a non-empty peer batch P for a
\* get_peers lookup on info-hash H, the callback was invoked with
\* (lookup_id, P, src_node) and the cache holds a non-expired entry for H
\* whose peers include P.
C7_ResponsePeersCachedAndReported ==
    (/\ last.op = "datagram" /\ last.path = "response"
     /\ last.msg.peers # NoPeers
     /\ last.lookup # NoLookup)
    => /\ lookups[last.lookup].callable =>
             \E k \in 1..Len(last.callbacks) :
                last.callbacks[k] = [lookup_id |-> last.lookup,
                                     peers |-> last.msg.peers,
                                     node |-> last.msg.addr]
       /\ \E i \in 1..Len(cached_lookups) :
             /\ cached_lookups[i].info_hash = lookups[last.lookup].info_hash
             /\ NonExpired(cached_lookups[i])
             /\ Includes(cached_lookups[i].peers, last.msg.peers)

\* the batch extends, in place, an entry for H that is exactly
\* CACHE_VALID_PERIOD old, behind an entry for another info-hash
C7_Witness ==
    /\ last.op = "datagram" /\ last.path = "response"
    /\ last.msg.peers # NoPeers
    /\ last.lookup # NoLookup
    /\ Len(cached_lookups) = 2
    /\ cached_lookups[2].info_hash = lookups[last.lookup].info_hash
    /\ now - cached_lookups[2].ts = CACHE_VALID_PERIOD
    /\ Len(cached_lookups[2].peers) > Len(last.msg.peers)

\* C8, as claimed, in the form a finite run refutes: timeouts alone drive a
\* started get_peers lookup to completion, so every query the sweep takes
\* from the Querier is dispatched to _on_timeout, and a lookup that has not
\* completed still has a query outstanding whose timeout will feed it.
C8_TimeoutsDriveCompletion ==
    /\ last.op = "main_loop" => last.dispatched = last.swept
    /\ \A l \in 1..Len(lookups) :
          (lookups[l].info_hash \in InfoHashes /\ lookups[l].started
              /\ ~lookups[l].done)
          => \E r \in querier : r.lookup = l

\* C9: a datagram that fails to decode returns (next_tick_ts, []) and
\* changes nothing: timestamps, cache, outstanding queries and lookups stay,
\* no collaborator is notified, no callback is invoked.
C9_UndecodableLeavesState ==
    [][(last'.op = "datagram" /\ ~last'.msg.decodable)
       => /\ last'.path = "undecodable"
          /\ last'.ret_ts = next_main_loop_call_ts
          /\ last'.datagrams = <<>>
          /\ last'.callbacks = <<>>
          /\ last'.notified = {}
          /\ UNCHANGED <<now, next_maintenance_ts, next_timeout_ts,
                         next_main_loop_call_ts, cached_lookups, querier,
                         issued, lookups>>]_vars

\* an undecodable datagram arrives while a query is outstanding and the
\* cache holds peers
C9_Witness ==
    /\ last.op = "datagram" /\ last.path = "undecodable"
    /\ querier # {}
    /\ cached_lookups # <<>>
    /\ next_main_loop_call_ts > 0

\* C10, as claimed: no exception leaves main_loop during a timeout sweep,
\* also when the experimental manager emits queries for a timed-out query.
C10_NoExceptionOnSweep ==
    last.op = "main_loop" => ~last.raised

\* the entries of cache that are exactly CACHE_VALID_PERIOD old
AtWindowEnd(cache) ==
    {i \in 1..Len(cache) : now - cache[i].ts = CACHE_VALID_PERIOD}

\* C11, as claimed: the cache window is inclusive.  An entry exactly
\* CACHE_VALID_PERIOD old is not dropped by the pruning before an insertion,
\* and the cache lookup returns peers for its info-hash.
C11_WindowInclusive ==
    [][last'.op \in {"get_peers", "datagram"}
       => /\ cached_lookups' # cached_lookups
             => \A i \in AtWindowEnd(cached_lookups) :
                   \E j \in 1..Len(cached_lookups') :
                      /\ cached_lookups'[j].ts = cached_lookups[i].ts
                      /\ cached_lookups'[j].info_hash = cached_lookups[i].info_hash
          /\ (last'.op = "get_peers" /\ last'.args.use_cache)
             => \A i \in AtWindowEnd(cached_lookups) :
                   cached_lookups[i].info_hash = last'.args.info_hash
                      => last'.cached_ts # -1]_vars

\* C12, as claimed: every query on_datagram_received returns was registered
\* with the Querier first, so each datagram of the batch that carries a query
\* is backed by an outstanding query (the others are the responder's
\* answers).
C12_ReturnedQueriesRegistered ==
    last.op = "datagram"
    => \A k \in 1..Len(last.datagrams) :
          \/ last.datagrams[k].kind = RESPONSE
          \/ /\ last.datagrams[k].kind = QUERY
             /\ \E r \in querier : /\ r.tid = last.datagrams[k].tid
                                   /\ r.dst = last.datagrams[k].dst

\* the batch and the info-hash the call's _add_cache_peers was given
AddedHash == IF last.op = "get_peers" THEN last.args.info_hash
             ELSE lookups[last.lookup].info_hash

AddedPeers == IF last.op = "get_peers" THEN last.callbacks[1].peers
              ELSE last.msg.peers

\* C13: _add_cache_peers(H, peers) deletes the leading entries older than
\* now - CACHE_VALID_PERIOD; then, if the newest entry left is for H, it
\* appends peers to that entry's batch and keeps its timestamp and the number
\* of entries, otherwise it appends the one entry (now, H, peers); no other
\* entry changes.
C13_AddCachePeers ==
    [][cached_lookups' # cached_lookups
       => LET old == cached_lookups
              new == cached_lookups'
              d == last'.pruned
              n == Len(old) - d
              H == AddedHash'
              peers == AddedPeers'
          IN /\ d \in 0..Len(old)
             /\ \A i \in 1..d : old[i].ts < now - CACHE_VALID_PERIOD
             /\ n > 0 => old[d + 1].ts >= now - CACHE_VALID_PERIOD
             /\ IF n > 0 /\ old[Len(old)].info_hash = H
                THEN /\ Len(new) = n
                     /\ \A j \in 1..(n - 1) : new[j] = old[d + j]
                     /\ new[n].ts = old[Len(old)].ts
                     /\ new[n].info_hash = H
                     /\ new[n].peers = old[Len(old)].peers \o peers
                ELSE /\ Len(new) = n + 1
                     /\ \A j \in 1..n : new[j] = old[d + j]
                     /\ new[n + 1] = [ts |-> now, info_hash |-> H, peers |-> peers]]_vars

\* an insertion that deleted an old entry and extended the newest one
C13_Witness ==
    /\ last.op = "datagram" /\ last.path = "response"
    /\ last.pruned > 0
    /\ Len(cached_lookups) = 1
    /\ cached_lookups[1].ts < now
    /\ Len(cached_lookups[1].peers) > 1

\* the entries of the cache for info_hash that are non-expired
ValidFor(cache, info_hash) ==
    {i \in 1..Len(cache) : cache[i].info_hash = info_hash /\ NonExpired(cache[i])}

\* C14, as claimed: _get_cached_peers(H) returns the peers of the first
\* non-expired entry for H in insertion order, and None when there is none;
\* an expired entry for H in front of it does not hide it.
C14_FirstNonExpiredMatch ==
    [][(last'.op = "get_peers" /\ last'.args.use_cache)
       => LET hits == ValidFor(cached_lookups, last'.args.info_hash)
          IN IF hits = {}
             THEN last'.cached_ts = -1 /\ last'.path = "lookup"
             ELSE /\ last'.cached_ts = cached_lookups[SetMin(hits)].ts
                  /\ last'.path = "cache_hit"
                  /\ last'.callbacks[1].peers = cached_lookups[SetMin(hits)].peers]_vars

\* C15: a main_loop call made while the current time is earlier than
\* next_tick_ts is a no-op: it returns (next_tick_ts, []), leaves
\* next_tick_ts, next_timeout_ts and next_maintenance_ts as they are, sweeps
\* no timeout, does no maintenance and registers no query.
C15_TooEarlyNoOp ==
    [][(last'.op = "main_loop" /\ now < next_main_loop_call_ts)
       => /\ last'.ret_ts = next_main_loop_call_ts
          /\ last'.datagrams = <<>>
          /\ last'.swept = {} /\ last'.dispatched = {}
          /\ last'.notified = {} /\ last'.callbacks = <<>>
          /\ ~last'.raised
          /\ UNCHANGED <<next_main_loop_call_ts, next_timeout_ts,
                         next_maintenance_ts, querier, issued, lookups,
                         cached_lookups>>]_vars

\* a call that is too early, made while a query is outstanding
C15_Witness ==
    /\ last.op = "main_loop" /\ last.path = "too_early"
    /\ now > 0 /\ now < next_main_loop_call_ts
    /\ querier # {}

C17_CacheWriteBeforeCallback ==
    (/\ last.op \in {"get_peers", "datagram"}
     /\ \E k \in 1..Len(last.callbacks) : last.callbacks[k].peers # NoPeers)
    => ~last.uncached

\* a tracker hit, and a response whose batch extends the entry of the
\* tracker hit
C17_Witness ==
    /\ last.op = "datagram" /\ last.path = "response"
    /\ last.callbacks # <<>>
    /\ last.callbacks[1].peers = <<"P1">>
    /\ \E i \in 1..Len(cached_lookups) : cached_lookups[i].peers = <<"P0", "P1">>

\* C18: on the RESPONSE, ERROR and timeout paths announce() is called when
\* and only when the lookup reports done for that event, once per such
\* event and after the lookup's completion callback; the completion callback
\* is made when and only when the lookup reports done.
C18_AnnounceIffDone ==
    [][last'.op \in {"datagram", "main_loop"}
       => LET newly == {l \in 1..Len(lookups) :
                           lookups'[l].done /\ ~lookups[l].done}
              ann == last'.announced
              cbs == last'.callbacks
          IN /\ {ann[k].lookup : k \in 1..Len(ann)} = newly
             /\ Len(ann) = Cardinality(newly)
             /\ \A k \in 1..Len(ann) :
                   lookups'[ann[k].lookup].callable => ann[k].completed
             /\ \A l \in 1..Len(lookups) :
                   lookups[l].callable =>
                      (l \in newly <=>
                          \E k \in 1..Len(cbs) :
                             cbs[k].lookup_id = l /\ cbs[k].peers = NoPeers)
             /\ \A l \in newly :
                   lookups[l].callable =>
                      Cardinality({k \in 1..Len(cbs) :
                                     cbs[k].lookup_id = l /\ cbs[k].peers = NoPeers}) = 1]_vars

\* one timeout sweep in which two lookups report done
C18_Witness ==
    /\ last.op = "main_loop"
    /\ Len(last.announced) = 2
    /\ last.announced[1].lookup # last.announced[2].lookup
    /\ Len(last.callbacks) = 2

\* C19: the cache is ordered by non-decreasing timestamp and no two adjacent
\* entries are for the same info-hash.
C19_CacheOrdered ==
    \A i \in 1..(Len(cached_lookups) - 1) :
        /\ cached_lookups[i].ts <= cached_lookups[i + 1].ts
        /\ cached_lookups[i].info_hash # cached_lookups[i + 1].info_hash

\* three entries made at three instants, the first and the last for the same
\* info-hash
C19_Witness ==
    /\ Len(cached_lookups) = 3
    /\ cached_lookups[1].info_hash = cached_lookups[3].info_hash
    /\ cached_lookups[1].ts < cached_lookups[2].ts
    /\ cached_lookups[2].ts < cached_lookups[3].ts

\* C20: next_timeout_ts and next_maintenance_ts are changed only by a
\* main_loop call past the rate limit; get_peers and on_datagram_received
\* leave both as they are, also when they register queries, and only ever
\* lower next_tick_ts.
C20_OnlyMainLoopReschedules ==
    [][/\ (next_timeout_ts' # next_timeout_ts
              \/ next_maintenance_ts' # next_maintenance_ts)
          => last'.op = "main_loop" /\ now >= next_main_loop_call_ts
       /\ last'.op \in {"get_peers", "datagram"}
          => /\ UNCHANGED <<next_timeout_ts, next_maintenance_ts>>
             /\ next_main_loop_call_ts' <= next_main_loop_call_ts
             /\ last'.ret_ts = next_main_loop_call_ts']_vars

\* a datagram whose handling registers a query, with the tick earlier than
\* both other timestamps
C20_Witness ==
    /\ last.op = "datagram"
    /\ \E k \in 1..Len(last.datagrams) : last.datagrams[k].kind = QUERY
    /\ next_main_loop_call_ts > 0
    /\ next_main_loop_call_ts < next_timeout_ts
    /\ next_main_loop_call_ts < next_maintenance_ts
====
